---- MODULE Spec2Model ----
(***************************************************************************)
(* TTI sensor analyzer (src/core/tti_analyzer.py) and its Flask host       *)
(* (src/app.py): the calibration store (load/save of the calibration       *)
(* file), the region sampler and the classifier.                           *)
(*                                                                         *)
(* JSON values are modelled structurally.  A document is a record          *)
(*   [kind, n, hasColors, colors, meta]                                    *)
(* kind "null" is JSON null (Python None), "number" a JSON number n,       *)
(* "object" a JSON object that may hold the member "colors" (an ordered    *)
(* mapping, kept as a sequence of entries in insertion order) and the      *)
(* metadata members summarised by meta ("" when there are none).           *)
(* The calibration file is a sequence of tokens, one per chunk json.dump   *)
(* hands to f.write.                                                       *)
(***************************************************************************)
EXTENDS Integers, Sequences, FiniteSets, TLC

VARIABLES
    calibration,        \* TTISensorAnalyzer.calibration of the host's analyzer
    file,               \* content of calibration_path: Absent or a token sequence
    pc,                 \* save_calibration in progress: 0 when none, k when chunk k is next
    calibration_data,   \* argument of the save_calibration call in progress / last made
    op,                 \* last store method called on the analyzer: "init" | "load" | "save"
    ret,                \* value that call returned
    reader,             \* a second analyzer constructed on the same path (another worker)
    result,             \* what the last analyze_image call returned
    analysis_history,   \* app.py analysis_history
    image,              \* decoded upload of the last analysis or extraction request
    region,             \* region that request carried
    color               \* what sampling the region gave: a colour or an exception

vars == <<calibration, file, pc, calibration_data, op, ret, reader,
          result, analysis_history, image, region, color>>

storeVars == <<calibration, file, pc, calibration_data, op, ret, reader>>
analysisVars == <<result, analysis_history>>
sampleVars == <<image, region, color>>

----------------------------------------------------------------------------
(* Colours and the built-in tables                                         *)

ForestGreen == <<34, 139, 34>>
LightGreen == <<144, 238, 144>>
Brown == <<139, 90, 43>>
FirebrickRed == <<178, 34, 34>>

\* colours of the pixels of the images the model analyses
Tan == <<180, 150, 115>>
Teal == <<0, 81, 126>>
\* extract_region_color's colour for a region without pixels (line 99)
FallbackGray == <<128, 128, 128>>

Entry(k, c, nm, d) == [key |-> k, rgb |-> c, name |-> nm, days |-> d]

DEFAULT_COLORS ==
    << Entry("fresh", ForestGreen, "Forest Green", "30-40"),
       Entry("good", LightGreen, "Light Green", "15-30"),
       Entry("warning", Brown, "Brown", "5-15"),
       Entry("expired", FirebrickRed, "Firebrick Red", "0") >>

\* STATUS_LABELS: the keys it has, and per key the label and the day range
StatusLabelKeys == {"fresh", "good", "warning", "expired"}

STATUS_LABELS(k) ==
    CASE k = "fresh" -> [label |-> "FRESH", days |-> "30-40"]
      [] k = "good" -> [label |-> "GOOD", days |-> "15-30"]
      [] k = "warning" -> [label |-> "WARNING", days |-> "5-15"]
      [] k = "expired" -> [label |-> "EXPIRED", days |-> "0-0"]

----------------------------------------------------------------------------
(* JSON documents                                                          *)

Doc(k, num, hc, cs, m) == [kind |-> k, n |-> num, hasColors |-> hc, colors |-> cs, meta |-> m]

None == Doc("null", 0, FALSE, <<>>, "")
JNumber(num) == Doc("number", num, FALSE, <<>>, "")
JObject(hc, cs, m) == Doc("object", 0, hc, cs, m)

\* create_default_calibration(): the default table wrapped with its metadata
DefaultCalibration == JObject(TRUE, DEFAULT_COLORS, "default")

\* Documents a client sends to the host (request bodies, uploaded files).
EmptyObject == JObject(FALSE, <<>>, "")
EmptyColors == JObject(TRUE, <<>>, "")
NonCanonical ==
    JObject(TRUE, << Entry("spoiled", ForestGreen, "Spoiled", "0"),
                     Entry("expired", FirebrickRed, "Red", "0") >>, "")
TiedPair ==
    JObject(TRUE, << Entry("warning", Brown, "Brown A", "5-15"),
                     Entry("fresh", Brown, "Brown B", "30-40") >>, "")
SingleRef == JObject(TRUE, << Entry("fresh", ForestGreen, "Green", "30-40") >>, "")
TwoRefs ==
    JObject(TRUE, << Entry("fresh", ForestGreen, "Green", "30-40"),
                     Entry("expired", FirebrickRed, "Red", "0") >>, "")

ClientDocs ==
    { None, JNumber(5), EmptyObject, EmptyColors, DefaultCalibration,
      NonCanonical, TiedPair, SingleRef, TwoRefs }

\* bool(value) in Python
Truthy(d) ==
    CASE d.kind = "null" -> FALSE
      [] d.kind = "number" -> d.n # 0
      [] d.kind = "object" -> d.hasColors \/ d.meta # ""

----------------------------------------------------------------------------
(* json.dump / json.load                                                   *)

NoEntry == Entry("", <<0, 0, 0>>, "", "")
Tok(t, s, e) == [t |-> t, s |-> s, e |-> e]

RECURSIVE EncodeEntries(_)
EncodeEntries(cs) ==
    IF cs = <<>> THEN <<>>
    ELSE <<Tok("member", cs[1].key, cs[1])>> \o EncodeEntries(Tail(cs))

\* The chunks json.dump(calibration_data, f, indent=2) writes, in order.
JsonDump(d) ==
    CASE d.kind = "null" -> <<Tok("null", "", NoEntry)>>
      [] d.kind = "number" -> <<Tok("number", "5", NoEntry)>>
      [] d.kind = "object" ->
            <<Tok("{", "", NoEntry)>>
            \o (IF d.hasColors
                THEN <<Tok("colors{", "", NoEntry)>> \o EncodeEntries(d.colors)
                     \o <<Tok("}", "", NoEntry)>>
                ELSE <<>>)
            \o (IF d.meta # "" THEN <<Tok("meta", d.meta, NoEntry)>> ELSE <<>>)
            \o <<Tok("}", "", NoEntry)>>

ParseError == [ok |-> FALSE, doc |-> None]
Parsed(d) == [ok |-> TRUE, doc |-> d]

\* Position of the first token with tag t at or after i, 0 when there is none.
RECURSIVE FindTok(_, _, _)
FindTok(toks, i, t) ==
    IF i > Len(toks) THEN 0
    ELSE IF toks[i].t = t THEN i
    ELSE FindTok(toks, i + 1, t)

\* A later member with an equal name replaces the earlier one's value and
\* keeps the earlier one's position (a Python dict).
RECURSIVE DictSet(_, _)
DictSet(cs, e) ==
    IF cs = <<>> THEN <<e>>
    ELSE IF cs[1].key = e.key THEN <<e>> \o Tail(cs)
    ELSE <<cs[1]>> \o DictSet(Tail(cs), e)

RECURSIVE ParseMembers(_, _, _, _)
ParseMembers(toks, i, stop, acc) ==
    IF i >= stop THEN acc
    ELSE ParseMembers(toks, i + 1, stop, DictSet(acc, toks[i].e))

\* json.load on the body of an object, toks[1] = "{": the optional colors
\* member, the optional metadata, the closing brace and nothing after it.
ParseObject(toks) ==
    LET n == Len(toks)
        hc == n >= 2 /\ toks[2].t = "colors{"
        close == IF hc THEN FindTok(toks, 3, "}") ELSE 0
        membersOk == hc => /\ close # 0
                           /\ \A j \in 3..(close - 1) : toks[j].t = "member"
        next == IF hc THEN close + 1 ELSE 2
        hasMeta == next <= n /\ toks[next].t = "meta"
        last == IF hasMeta THEN next + 1 ELSE next
    IN  IF membersOk /\ last = n /\ toks[n].t = "}"
        THEN Parsed(JObject(hc,
                            IF hc THEN ParseMembers(toks, 3, close, <<>>) ELSE <<>>,
                            IF hasMeta THEN toks[next].s ELSE ""))
        ELSE ParseError

\* json.load(f): the document, or a JSONDecodeError for anything that is not
\* exactly one complete document (an empty or truncated file included).
JsonLoad(toks) ==
    IF toks = <<>> THEN ParseError
    ELSE CASE toks[1].t = "null" -> IF Len(toks) = 1 THEN Parsed(None) ELSE ParseError
           [] toks[1].t = "number" -> IF Len(toks) = 1 THEN Parsed(JNumber(5)) ELSE ParseError
           [] toks[1].t = "{" -> ParseObject(toks)
           [] OTHER -> ParseError

----------------------------------------------------------------------------
(* The calibration store: TTISensorAnalyzer.load_calibration,              *)
(* save_calibration, has_calibration, get_reference_colors                 *)

Absent == [exists |-> FALSE, content |-> <<>>]
Present(toks) == [exists |-> TRUE, content |-> toks]

\* load_calibration(): the analyzer's calibration and the value returned,
\* given the file and the calibration held before the call.
LoadCalibrationOutcome(f, cal) ==
    IF f.exists
    THEN IF JsonLoad(f.content).ok
         THEN [calibration |-> JsonLoad(f.content).doc, ret |-> TRUE]
         ELSE [calibration |-> None, ret |-> FALSE]
    ELSE [calibration |-> cal, ret |-> FALSE]

\* __init__: calibration = None, then load_calibration()
Construct(f) == LoadCalibrationOutcome(f, None)

HasCalibration(cal) == cal # None

\* get_reference_colors(): the table used, whether it is the built-in one,
\* and whether evaluating the condition raised ('colors' in <number>).
GetReferenceColors(cal) ==
    IF ~Truthy(cal) THEN [raised |-> FALSE, builtin |-> TRUE, colors |-> DEFAULT_COLORS]
    ELSE IF cal.kind = "number" THEN [raised |-> TRUE, builtin |-> FALSE, colors |-> <<>>]
    ELSE IF cal.hasColors THEN [raised |-> FALSE, builtin |-> FALSE, colors |-> cal.colors]
    ELSE [raised |-> FALSE, builtin |-> TRUE, colors |-> DEFAULT_COLORS]

\* open(calibration_path, 'r+'): the old content is kept and overwritten in place
OpenWithoutTruncate(f) == Present(f.content)

\* open(calibration_path, 'w'): the file exists afterwards and is empty
OpenForWrite(f) == Present(<<>>)

\* f.write(chunk) at chunk position k
WriteAt(content, k, chunk) ==
    IF k <= Len(content) THEN [content EXCEPT ![k] = chunk] ELSE Append(content, chunk)

\* save_calibration(data), first step: open() either raises, and the call
\* returns False, or truncates the file and the dump starts.
SaveCalibrationBegin(data) ==
    /\ pc = 0
    /\ op' = "save"
    /\ calibration_data' = data
    /\ \/ /\ file' = OpenForWrite(file)
          /\ pc' = 1
          /\ UNCHANGED ret
       \/ /\ ret' = FALSE
          /\ UNCHANGED <<file, pc>>
    /\ UNCHANGED <<calibration, reader, analysisVars, sampleVars>>

\* json.dump writes the next chunk
SaveWrite ==
    /\ pc >= 1
    /\ pc <= Len(JsonDump(calibration_data))
    /\ file' = Present(WriteAt(file.content, pc, JsonDump(calibration_data)[pc]))
    /\ pc' = pc + 1
    /\ UNCHANGED <<calibration, calibration_data, op, ret, reader, analysisVars, sampleVars>>

\* the except branch with the assignment of line 59 moved before the dump
SaveFailAfterAssign ==
    /\ pc >= 1
    /\ pc' = 0
    /\ ret' = FALSE
    /\ calibration' = calibration_data
    /\ UNCHANGED <<file, calibration_data, op, reader, analysisVars, sampleVars>>

\* a write, or the close that ends the with block, raises: except branch
SaveFail ==
    /\ pc >= 1
    /\ pc' = 0
    /\ ret' = FALSE
    /\ UNCHANGED <<calibration, file, calibration_data, op, reader, analysisVars, sampleVars>>

\* the dump is complete: the file is closed, the calibration becomes active
SaveClose ==
    /\ pc = Len(JsonDump(calibration_data)) + 1
    /\ calibration' = calibration_data
    /\ pc' = 0
    /\ ret' = TRUE
    /\ UNCHANGED <<file, calibration_data, op, reader, analysisVars, sampleVars>>

LoadCalibration ==
    /\ pc = 0
    /\ op' = "load"
    /\ calibration' = LoadCalibrationOutcome(file, calibration).calibration
    /\ ret' = LoadCalibrationOutcome(file, calibration).ret
    /\ UNCHANGED <<file, pc, calibration_data, reader, analysisVars, sampleVars>>

\* Another process constructs its analyzer on the same path, at any moment.
ReaderConstruct ==
    /\ reader' = Construct(file)
    /\ UNCHANGED <<calibration, file, pc, calibration_data, op, ret, analysisVars, sampleVars>>

----------------------------------------------------------------------------
(* The host's calibration handlers (src/app.py)                            *)

\* data['created'] = ...; data['source'] = 'web_calibration'
WithWebMetadata(data) == [data EXCEPT !.meta = "web_calibration"]

\* POST /api/calibrate with JSON body data
ApiCalibrate(data) ==
    /\ pc = 0
    /\ IF Truthy(data) /\ data.kind = "object" /\ data.hasColors
       THEN SaveCalibrationBegin(WithWebMetadata(data))
       ELSE UNCHANGED vars       \* 400, or 500 for 'colors' in <number>

\* POST /api/calibration/default
ApiUseDefaultCalibration == SaveCalibrationBegin(DefaultCalibration)

\* POST /upload-calibration with a file of the given content
UploadCalibration(content) ==
    /\ pc = 0
    /\ IF JsonLoad(content).ok
       THEN SaveCalibrationBegin(JsonLoad(content).doc)
       ELSE UNCHANGED vars       \* 'Invalid JSON file'

\* Bodies posted to /api/calibrate and files uploaded to /upload-calibration
\* (the empty file is not JSON).
PostedDocs == {None, JNumber(5), EmptyObject, NonCanonical}
UploadContents ==
    {JsonDump(d) : d \in {None, JNumber(5), EmptyObject, EmptyColors, SingleRef}} \cup {<<>>}

----------------------------------------------------------------------------
(* Images and regions                                                      *)

MaxW == 2           \* widest image sampled
MaxH == 2           \* tallest image sampled
MaxSize == 2        \* largest region width and height requested

\* An image is [w, h, px]: px[r][c] is the RGB triple of row r, column c
\* (1-based; numpy's row y is px[y + 1]).  A file that PIL cannot decode is
\* CorruptImage.
Uniform(w, h, rgb) ==
    [w |-> w, h |-> h, px |-> [r \in 1..h |-> [c \in 1..w |-> rgb]]]
Checker(w, h, rgb1, rgb2) ==
    [w |-> w, h |-> h,
     px |-> [r \in 1..h |-> [c \in 1..w |-> IF (r + c) % 2 = 0 THEN rgb1 ELSE rgb2]]]

CorruptImage == [w |-> 0, h |-> 0, px |-> <<>>]
NoImage == CorruptImage

\* A region is the request's region value: absent (None), or a dict that
\* has the four fields or lacks one.
Region(x, y, w, h) ==
    [present |-> TRUE, hasFields |-> TRUE, x |-> x, y |-> y, width |-> w, height |-> h]
NoRegion == [present |-> FALSE, hasFields |-> FALSE, x |-> 0, y |-> 0, width |-> 0, height |-> 0]
RegionMissingField ==
    [present |-> TRUE, hasFields |-> FALSE, x |-> 0, y |-> 0, width |-> 0, height |-> 0]

\* a default region of a quarter of the image's width and height
DefaultRegionQuarterSize(img) ==
    Region(img.w \div 4, img.h \div 4, img.w \div 4, img.h \div 4)

\* the centred half-size region both callers default to
DefaultRegion(img) == Region(img.w \div 4, img.h \div 4, img.w \div 2, img.h \div 2)

----------------------------------------------------------------------------
(* RegionSampler: TTISensorAnalyzer.extract_region_color                   *)

Min2(a, b) == IF a < b THEN a ELSE b
Max2(a, b) == IF a > b THEN a ELSE b

\* lines 90-93: x and y are reassigned, so x2 and y2 add the width and the
\* height to the clamped values
Clamp(img, reg) ==
    LET x == Max2(0, Min2(reg.x, img.w - 1))
        y == Max2(0, Min2(reg.y, img.h - 1))
    IN  [x |-> x, y |-> y,
         x2 |-> Max2(0, Min2(x + reg.width, img.w)),
         y2 |-> Max2(0, Min2(y + reg.height, img.h))]

\* img_array[y:y2, x:x2] as the set of (row, column) positions, 0-based
RegionPixels(b) == {<<r, c>> \in (b.y..(b.y2 - 1)) \X (b.x..(b.x2 - 1)) : TRUE}

RECURSIVE SumChannel(_, _, _)
SumChannel(img, cells, ch) ==
    IF cells = {} THEN 0
    ELSE LET p == CHOOSE q \in cells : TRUE
         IN  img.px[p[1] + 1][p[2] + 1][ch] + SumChannel(img, cells \ {p}, ch)

\* np.mean over the region's pixels per channel, then int()
MeanColor(img, cells) ==
    [ch \in 1..3 |-> SumChannel(img, cells, ch) \div Cardinality(cells)]

Raised(e) == [raised |-> TRUE, error |-> e, rgb |-> <<0, 0, 0>>]
Returned(rgb) == [raised |-> FALSE, error |-> "", rgb |-> rgb]

\* extract_region_color without lines 98-99: np.mean of no pixels is nan,
\* and int(nan) raises
ExtractRegionColorNoEmptyCheck(img, reg) ==
    IF ~reg.hasFields THEN Raised("KeyError: region")
    ELSE LET cells == RegionPixels(Clamp(img, reg))
         IN  IF cells = {} THEN Raised("ValueError")
             ELSE Returned(MeanColor(img, cells))

\* extract_region_color(img, region) on a decoded image
ExtractRegionColor(img, reg) ==
    IF ~reg.hasFields THEN Raised("KeyError: region")
    ELSE LET cells == RegionPixels(Clamp(img, reg))
         IN  IF cells = {} THEN Returned(FallbackGray)
             ELSE Returned(MeanColor(img, cells))

\* no request has been served yet
NotSampled == [raised |-> FALSE, error |-> "not sampled", rgb |-> <<0, 0, 0>>]

\* POST /api/calibrate/extract-color serving the request received (its
\* upload and its region): the region of the request, or the default when
\* it is absent; any exception gives a 500.
ApiExtractColor ==
    /\ color = NotSampled
    /\ color' = IF image = CorruptImage THEN Raised("UnidentifiedImageError")
                ELSE ExtractRegionColor(image, IF region.present THEN region
                                               ELSE DefaultRegion(image))
    /\ UNCHANGED <<image, region, storeVars, analysisVars>>

SampleImages ==
    UNION { {Uniform(w, h, ForestGreen), Checker(w, h, ForestGreen, Tan)} :
            <<w, h>> \in (1..MaxW) \X (1..MaxH) }

SampleRegions ==
    { Region(x, y, w, h) : <<x, y, w, h>> \in
        ((0 - MaxSize - 1)..(MaxW + 1)) \X ((0 - MaxSize - 1)..(MaxH + 1))
        \X (0..MaxSize) \X (0..MaxSize) }
    \cup {NoRegion, RegionMissingField}

MaxDim == 4         \* widest and tallest image analysed with a default or empty region

\* decoded uploads of every size up to MaxDim x MaxDim, neighbouring
\* pixels of different colours
RegionImages ==
    { Checker(w, h, ForestGreen, Tan) : <<w, h>> \in (1..MaxDim) \X (1..MaxDim) }

\* regions of width 0 or height 0, at positions left of, above, inside,
\* right of and below every image; the other dimension may be negative
DegenerateRegions ==
    { Region(x, y, w, h) : <<x, y, w, h>> \in
        { q \in ((0 - 1)..MaxDim) \X ((0 - 1)..MaxDim)
                \X ((0 - 1)..1) \X ((0 - 1)..1) : q[3] = 0 \/ q[4] = 0 } }

----------------------------------------------------------------------------
(* ColorMath.  Distances are fixed-point numbers in hundredths (9105 is     *)
(* 91.05), rounded down; Lab coordinates are hundredths, rounded.          *)

Abs(a) == IF a < 0 THEN 0 - a ELSE a

RECURSIVE ISqrtBetween(_, _, _)
ISqrtBetween(n, lo, hi) ==
    IF lo >= hi THEN lo
    ELSE LET mid == (lo + hi + 1) \div 2
         IN  IF mid * mid <= n THEN ISqrtBetween(n, mid, hi)
             ELSE ISqrtBetween(n, lo, mid - 1)

\* the largest r with r * r <= n
ISqrt(n) == ISqrtBetween(n, 0, 46340)

SumSquares(a, b) ==
    (a[1] - b[1]) * (a[1] - b[1]) + (a[2] - b[2]) * (a[2] - b[2])
    + (a[3] - b[3]) * (a[3] - b[3])

\* math.sqrt(sum((a - b) ** 2 ...)) on RGB triples, in hundredths
ColorDistanceEuclidean(c1, c2) == ISqrt(10000 * SumSquares(c1, c2))

\* sum(abs(a - b) ...), in hundredths
ColorDistanceManhattan(c1, c2) ==
    100 * (Abs(c1[1] - c2[1]) + Abs(c1[2] - c2[2]) + Abs(c1[3] - c2[3]))

\* rgb_to_lab at the colours that occur (reference colours, pixel colours,
\* the means of the analysed images' regions and the fallback gray): the
\* values the function yields there, times 100 and rounded.
RgbToLab(rgb) ==
    CASE rgb = <<34, 139, 34>> -> <<5059, -4959, 4502>>
      [] rgb = <<144, 238, 144>> -> <<8655, -4633, 3695>>
      [] rgb = <<139, 90, 43>> -> <<4273, 1549, 3470>>
      [] rgb = <<178, 34, 34>> -> <<3912, 5592, 3765>>
      [] rgb = <<180, 150, 115>> -> <<6396, 613, 2266>>
      [] rgb = <<0, 81, 126>> -> <<3268, -321, -3127>>
      [] rgb = <<107, 144, 74>> -> <<5565, -2563, 3295>>
      [] rgb = <<82, 142, 61>> -> <<5347, -3540, 3663>>
      [] rgb = <<131, 146, 88>> -> <<5812, -1530, 2896>>
      [] rgb = <<98, 143, 70>> -> <<5474, -2906, 3380>>
      [] rgb = <<115, 145, 79>> -> <<5655, -2237, 3155>>
      [] rgb = <<128, 128, 128>> -> <<5359, 0, 0>>

\* Delta E (CIE76): the Euclidean distance of the two Lab triples
ColorDistanceDeltaE(c1, c2) == ISqrt(SumSquares(RgbToLab(c1), RgbToLab(c2)))

----------------------------------------------------------------------------
(* Classifier: analyze_color, determine_status, analyze_image              *)

\* analyze_color(sample_color): per reference, in the table's order, the
\* three distances; get_reference_colors may raise.
RECURSIVE Distances(_, _)
Distances(sample, refs) ==
    IF refs = <<>> THEN <<>>
    ELSE << [status |-> refs[1].key,
             euclidean |-> ColorDistanceEuclidean(sample, refs[1].rgb),
             manhattan |-> ColorDistanceManhattan(sample, refs[1].rgb),
             delta_e |-> ColorDistanceDeltaE(sample, refs[1].rgb)] >>
         \o Distances(sample, Tail(refs))

Infinity == 2147483647      \* stands for float('inf'): above every distance

\* the selection made by the Euclidean distance
MetricEuclidean(d) == d.euclidean

\* distances[metric] with metric = 'delta_e' (line 227)
Metric(d) == d.delta_e

\* the loop's test with <= : a later equal distance replaces the earlier one
Closer(d, min_distance) == d <= min_distance

\* line 178: distances[metric] < min_distance
StrictlyCloser(d, min_distance) == d < min_distance

\* lines 174-180: the loop over distance_results.items(), from position i,
\* carrying min_distance and best_status
RECURSIVE SelectFrom(_, _, _, _)
SelectFrom(ds, i, min_distance, best_status) ==
    IF i > Len(ds) THEN [min_distance |-> min_distance, best_status |-> best_status]
    ELSE IF StrictlyCloser(Metric(ds[i]), min_distance)
         THEN SelectFrom(ds, i + 1, Metric(ds[i]), ds[i].status)
         ELSE SelectFrom(ds, i + 1, min_distance, best_status)

RECURSIVE MaxDistance(_, _)
MaxDistance(ds, i) ==
    IF i = Len(ds) THEN Metric(ds[i])
    ELSE Max2(Metric(ds[i]), MaxDistance(ds, i + 1))

\* 100 * (1 - min / max) cut off after the first decimal instead of rounded
ConfidenceTenthsTruncated(min_distance, max_distance) ==
    (1000 * (max_distance - min_distance)) \div max_distance

\* round(x, 1) of 100 * (1 - min / max), in tenths
ConfidenceTenths(min_distance, max_distance) ==
    (2000 * (max_distance - min_distance) + max_distance) \div (2 * max_distance)

\* min / max taken for the confidence, without the 1 -
ConfidenceNotInverted(min_distance, max_distance) ==
    IF max_distance > 0 THEN (1000 * min_distance) \div max_distance ELSE 1000

\* lines 183-187 and 191: confidence in tenths of a percent (1000 is 100.0)
Confidence(min_distance, max_distance) ==
    IF max_distance > 0 THEN ConfidenceTenths(min_distance, max_distance) ELSE 1000

Exception(e) == [kind |-> "exception", error |-> e]

\* determine_status(distance_results, 'delta_e')
DetermineStatus(ds) ==
    LET sel == SelectFrom(ds, 1, Infinity, "expired")
    IN  IF ds = <<>> THEN Exception("ValueError")          \* max() of nothing
        ELSE IF sel.best_status \notin StatusLabelKeys THEN Exception("KeyError: status")
        ELSE [kind |-> "status",
              status |-> sel.best_status,
              confidence |-> Confidence(sel.min_distance, MaxDistance(ds, 1)),
              distance |-> sel.min_distance,
              label |-> STATUS_LABELS(sel.best_status).label,
              days_remaining |-> STATUS_LABELS(sel.best_status).days]

\* the try block of analyze_image (lines 201-256): the result, or the
\* exception that leaves it
AnalyzeImageTry(path, img, reg, cal) ==
    IF img = CorruptImage THEN Exception("UnidentifiedImageError")
    ELSE
    LET used == IF reg.present THEN reg ELSE DefaultRegion(img)
        sample == ExtractRegionColor(img, used)
        refs == GetReferenceColors(cal)
        ds == Distances(sample.rgb, refs.colors)
        st == DetermineStatus(ds)
    IN  IF sample.raised THEN Exception(sample.error)
        ELSE IF refs.raised THEN Exception("TypeError")
        ELSE IF st.kind = "exception" THEN st
        ELSE [kind |-> "ok",
              timestamp |-> "now",
              image_path |-> path,
              sample_color |-> sample.rgb,
              region |-> used,
              status |-> st.status,
              label |-> st.label,
              confidence |-> st.confidence,
              days_remaining |-> st.days_remaining,
              distances |-> ds,
              calibration_used |-> HasCalibration(cal)]

ErrorResult(path, e) ==
    [kind |-> "error", error |-> e, timestamp |-> "now", image_path |-> path]

\* analyze_image with an except clause that names only the decoder's error
AnalyzeImageCatchDecodeOnly(path, img, reg, cal) ==
    LET r == AnalyzeImageTry(path, img, reg, cal)
    IN  IF r.kind # "exception" THEN r
        ELSE IF r.error = "UnidentifiedImageError" THEN ErrorResult(path, r.error)
        ELSE [kind |-> "raised", error |-> r.error]

\* analyze_image(image_path, region): except Exception turns whatever the
\* try block raised into the error value (lines 258-263)
AnalyzeImage(path, img, reg, cal) ==
    LET r == AnalyzeImageTry(path, img, reg, cal)
    IN  IF r.kind = "exception" THEN ErrorResult(path, r.error) ELSE r

MaxHistory == 2     \* analyses appended to analysis_history

HistoryEntry(n, r) ==
    [id |-> n, timestamp |-> r.timestamp, status |-> r.status, label |-> r.label,
     confidence |-> r.confidence, days_remaining |-> r.days_remaining]

\* POST /api/analyze with an upload stored at path (NoPath when the request
\* carried no usable image) and the request's region
ApiAnalyze(path, img, reg) ==
    /\ Len(analysis_history) < MaxHistory
    /\ IF path = "" THEN UNCHANGED <<result, analysis_history, sampleVars>>   \* 400
       ELSE LET r == AnalyzeImage(path, img, reg, calibration)
            IN  /\ result' = r
                /\ image' = img
                /\ region' = reg
                /\ color' = IF img = CorruptImage THEN Raised("UnidentifiedImageError")
                            ELSE ExtractRegionColor(img, IF reg.present THEN reg
                                                         ELSE DefaultRegion(img))
                /\ analysis_history' =
                      IF r.kind = "ok"
                      THEN Append(analysis_history, HistoryEntry(Len(analysis_history) + 1, r))
                      ELSE analysis_history     \* 500: 'error' in result, or raised
    /\ UNCHANGED storeVars

\* the uploads analysed: path and decoded content
Uploads ==
    { [path |-> "", img |-> CorruptImage],
      [path |-> "uploads/corrupt.png", img |-> CorruptImage],
      [path |-> "uploads/green.png", img |-> Uniform(1, 1, ForestGreen)],
      [path |-> "uploads/tan.png", img |-> Uniform(1, 1, Tan)],
      [path |-> "uploads/teal.png", img |-> Uniform(1, 1, Teal)],
      [path |-> "uploads/two.png", img |-> Checker(2, 1, ForestGreen, Tan)] }

AnalysisRegions ==
    { NoRegion, RegionMissingField,
      Region(0, 0, 1, 1), Region(0, 0, 2, 1), Region(1, 0, 1, 1), Region(0, 0, 0, 0) }

----------------------------------------------------------------------------
NoResult == [kind |-> "none"]

\* The state after the host constructed its analyzer (app.py line 50): the
\* calibration file is missing or holds a document saved by an earlier run.
InitCommon ==
    /\ calibration = Construct(file).calibration
    /\ ret = Construct(file).ret
    /\ op = "init"
    /\ pc = 0
    /\ calibration_data = None
    /\ reader = Construct(Absent)
    /\ result = NoResult
    /\ analysis_history = <<>>
    /\ color = NotSampled

Init ==
    /\ file \in {Absent, Present(JsonDump(TwoRefs))}
    /\ image = NoImage
    /\ region = NoRegion
    /\ InitCommon

Next ==
    \/ \E d \in PostedDocs : ApiCalibrate(d)
    \/ ApiUseDefaultCalibration
    \/ \E c \in UploadContents : UploadCalibration(c)
    \/ SaveWrite
    \/ SaveFail
    \/ SaveClose
    \/ LoadCalibration
    \/ ReaderConstruct

Spec == Init /\ [][Next]_vars

\* The classifier: the analyzer was constructed on any calibration file.
AnalyzeInit ==
    /\ file \in {Absent} \cup {Present(JsonDump(d)) : d \in ClientDocs}
    /\ image = NoImage
    /\ region = NoRegion
    /\ InitCommon

AnalyzeNext ==
    \E u \in Uploads : \E reg \in AnalysisRegions : ApiAnalyze(u.path, u.img, reg)

AnalyzeSpec == AnalyzeInit /\ [][AnalyzeNext]_vars

\* The sampler alone: an extraction request with any image and region of
\* the bounds has been received, and is served.
SampleInit ==
    /\ file = Absent
    /\ image \in SampleImages \cup {CorruptImage}
    /\ region \in SampleRegions
    /\ InitCommon

SampleNext == ApiExtractColor

SampleSpec == SampleInit /\ [][SampleNext]_vars

\* Requests with the region absent or empty: an upload of any size up to
\* MaxDim has been received with such a region; the analyzer holds no
\* calibration or the default one.  The request is served by the extraction
\* route or, any number of times, by the analysis route.
RegionInit ==
    /\ file \in {Absent, Present(JsonDump(DefaultCalibration))}
    /\ image \in RegionImages
    /\ region \in DegenerateRegions \cup {NoRegion}
    /\ InitCommon

RegionNext ==
    \/ ApiExtractColor
    \/ ApiAnalyze("uploads/sensor.png", image, region)

RegionSpec == RegionInit /\ [][RegionNext]_vars

----------------------------------------------------------------------------
(* Properties of the calibration store                                     *)

Keys(cs) == {cs[i].key : i \in 1..Len(cs)}
Lookup(cs, k) == {cs[i] : i \in {j \in 1..Len(cs) : cs[j].key = k}}

\* the two documents have the same colors mapping: both lack it or both
\* have it with the same keys and, per key, the same rgb, name and days
SameColors(a, b) ==
    /\ a.hasColors = b.hasColors
    /\ Keys(a.colors) = Keys(b.colors)
    /\ \A k \in Keys(a.colors) : Lookup(a.colors, k) = Lookup(b.colors, k)

FileIsComplete == file.exists => JsonLoad(file.content).ok

\* C1 (as claimed): a load_calibration that returns False leaves the active
\* calibration as it was before the call.
C1_FailedLoadKeepsCalibration ==
    [][(op' = "load" /\ ret' = FALSE) => calibration' = calibration]_vars

\* C2: when a save_calibration call ends, the active calibration is the
\* call's argument if it returned True and is what it was before the call
\* if it returned False (no step of a failing call changes it).
C2_SaveUpdatesOnlyOnSuccess ==
    [][(op' = "save" /\ pc' = 0) =>
          IF ret' THEN calibration' = calibration_data' ELSE calibration' = calibration]_vars

\* a save that failed part-way: the file is truncated, the previous
\* calibration is still the active one and is not the argument
C2_Witness ==
    /\ op = "save" /\ pc = 0 /\ ret = FALSE
    /\ ~FileIsComplete
    /\ HasCalibration(calibration)
    /\ calibration # calibration_data

\* C3 (as claimed): whatever a reader finds in the calibration file is one
\* complete document, during a save and after it has ended.
C3_ReaderNeverSeesPartialWrite == FileIsComplete

\* C4: a load_calibration that directly follows a successful
\* save_calibration(C) returns True and leaves an active calibration whose
\* colors mapping is C's.
C4_SaveLoadRoundTrip ==
    [][(op = "save" /\ pc = 0 /\ ret = TRUE /\ op' = "load") =>
          (ret' = TRUE /\ SameColors(calibration', calibration_data))]_vars

\* a load after a save that replaced a longer document holding other keys
C4_Witness ==
    /\ op = "load" /\ ret = TRUE
    /\ calibration = calibration_data
    /\ calibration = SingleRef
    /\ reader.calibration = WithWebMetadata(NonCanonical)
    /\ file = Present(JsonDump(SingleRef))

\* the region's rectangle [x, x+width) x [y, y+height) holds no pixel of the image
WhollyOutside(img, reg) ==
    ~ \E c \in 0..(img.w - 1), r \in 0..(img.h - 1) :
          /\ reg.x <= c /\ c < reg.x + reg.width
          /\ reg.y <= r /\ r < reg.y + reg.height

\* C5 (as claimed): sampling a region that lies entirely outside the image
\* returns the fallback colour (128,128,128).
C5_OutsideRegionGivesFallback ==
    ( /\ color # NotSampled /\ image # CorruptImage
      /\ region.present /\ region.hasFields
      /\ WhollyOutside(image, region) )
        => color = Returned(FallbackGray)

\* C8 (as claimed): with a calibration loaded the reference table is the
\* calibration's colors mapping, and the built-in table is used only when
\* none is loaded.
C8_ReferenceKeysAreCalibrationKeys ==
    LET refs == GetReferenceColors(calibration)
    IN  /\ HasCalibration(calibration) =>
              /\ ~refs.raised /\ ~refs.builtin
              /\ calibration.hasColors
              /\ Keys(refs.colors) = Keys(calibration.colors)
        /\ refs.builtin => ~HasCalibration(calibration)

----------------------------------------------------------------------------
(* Properties of the classifier                                            *)

\* the distance table of the last request's sample under the active calibration
StateDistances == Distances(color.rgb, GetReferenceColors(calibration).colors)

\* the last request's analysis got as far as a sampled colour
Sampled == result.kind \in {"ok", "error"} /\ ~color.raised

\* position i holds the first minimum of the Delta E column of ds
IsFirstMinimum(ds, i) ==
    /\ \A j \in 1..Len(ds) : ds[j].delta_e >= ds[i].delta_e
    /\ \A j \in 1..(i - 1) : ds[j].delta_e > ds[i].delta_e

\* reference i is the sample itself and every other reference is at Delta E > 0
IsExactUniqueMatch(refs, sample, i) ==
    /\ refs[i].rgb = sample
    /\ \A j \in 1..Len(refs) : j # i => ColorDistanceDeltaE(sample, refs[j].rgb) > 0

ResultFields ==
    {"kind", "timestamp", "image_path", "sample_color", "region", "status", "label",
     "confidence", "days_remaining", "distances", "calibration_used"}

\* C6: every analysis ends in a complete result or in the error value with
\* its message, timestamp and image path, whatever step failed; an error
\* value leaves analysis_history as it was and a result is appended to it.
C6_AnalyzeNeverRaises ==
    [][/\ result'.kind \in {"ok", "error"}
       /\ result'.kind = "error" =>
             /\ DOMAIN result' = {"kind", "error", "timestamp", "image_path"}
             /\ analysis_history' = analysis_history
       /\ result'.kind = "ok" =>
             /\ DOMAIN result' = ResultFields
             /\ Len(analysis_history') = Len(analysis_history) + 1]_vars

\* an analysis whose winning key has no status label, after one that succeeded
C6_Witness ==
    /\ result.kind = "error"
    /\ result.error = "KeyError: status"
    /\ calibration = NonCanonical
    /\ Len(analysis_history) = 1

\* C7 (as claimed): a sample equal to one reference that is the strict
\* unique minimum gives that reference's key with confidence 100.0.
C7_ExactMatchAnyKey ==
    Sampled =>
        \A i \in 1..Len(GetReferenceColors(calibration).colors) :
            IsExactUniqueMatch(GetReferenceColors(calibration).colors, color.rgb, i) =>
                /\ result.kind = "ok"
                /\ result.status = GetReferenceColors(calibration).colors[i].key
                /\ result.confidence = 1000

\* C7 (amended): the same when that reference's key is one of fresh, good,
\* warning, expired; under the default table the sample (34,139,34) gives
\* fresh, FRESH and 30-40.
C7_ExactMatchCanonicalKey ==
    Sampled =>
        /\ \A i \in 1..Len(GetReferenceColors(calibration).colors) :
              ( /\ IsExactUniqueMatch(GetReferenceColors(calibration).colors, color.rgb, i)
                /\ GetReferenceColors(calibration).colors[i].key \in StatusLabelKeys )
              => /\ result.kind = "ok"
                 /\ result.status = GetReferenceColors(calibration).colors[i].key
                 /\ result.confidence = 1000
        /\ (calibration = DefaultCalibration /\ color.rgb = ForestGreen) =>
              /\ result.kind = "ok"
              /\ result.status = "fresh"
              /\ result.label = "FRESH"
              /\ result.days_remaining = "30-40"

C7_Witness ==
    /\ calibration = DefaultCalibration
    /\ color = Returned(ForestGreen)
    /\ result.kind = "ok"
    /\ result.status = "fresh"
    /\ result.confidence = 1000

\* C9: the loop of determine_status ends on the first key, in the table's
\* order, whose Delta E is the minimum, for every non-empty table; a
\* returned result carries that key.  The other two columns are not read.
C9_FirstMinimumWins ==
    (Sampled /\ StateDistances # <<>>) =>
        /\ \E i \in 1..Len(StateDistances) :
              /\ IsFirstMinimum(StateDistances, i)
              /\ SelectFrom(StateDistances, 1, Infinity, "expired").best_status
                    = StateDistances[i].status
        /\ result.kind = "ok" =>
              \E i \in 1..Len(result.distances) :
                  /\ IsFirstMinimum(result.distances, i)
                  /\ result.status = result.distances[i].status

\* two references at the same Delta E: the first of them is the status
C9_Witness ==
    /\ calibration = TiedPair
    /\ result.kind = "ok"
    /\ result.distances[1].delta_e = result.distances[2].delta_e
    /\ result.status = "warning"

MinDeltaE(ds) == CHOOSE d \in {ds[i].delta_e : i \in 1..Len(ds)} :
                    \A j \in 1..Len(ds) : ds[j].delta_e >= d
MaxDeltaE(ds) == CHOOSE d \in {ds[i].delta_e : i \in 1..Len(ds)} :
                    \A j \in 1..Len(ds) : ds[j].delta_e <= d

\* C10 (as claimed): the confidence is within [0,100], is 100.0 when the
\* largest Delta E is 0, and is 0 exactly when all references are at one
\* non-zero Delta E.
C10_ZeroOnlyWhenEquidistant ==
    result.kind = "ok" =>
        /\ result.confidence \in 0..1000
        /\ MaxDeltaE(result.distances) = 0 => result.confidence = 1000
        /\ result.confidence = 0 <=>
              /\ MinDeltaE(result.distances) = MaxDeltaE(result.distances)
              /\ MaxDeltaE(result.distances) > 0

\* C10 (amended): the confidence is within [0,100]; it is 100.0 when the
\* largest Delta E is 0 and otherwise (1 - min/max) x 100 rounded to one
\* decimal; it is 0 whenever all references are at one non-zero Delta E,
\* and a confidence of 0 means only that min is within 0.05% of max.
C10_ConfidenceRounded ==
    result.kind = "ok" =>
        LET lo == MinDeltaE(result.distances)
            hi == MaxDeltaE(result.distances)
        IN  /\ result.confidence \in 0..1000
            /\ hi = 0 => result.confidence = 1000
            /\ hi > 0 =>
                  /\ 2 * (result.confidence * hi - 1000 * (hi - lo)) <= hi
                  /\ 2 * (1000 * (hi - lo) - result.confidence * hi) <= hi
            /\ (lo = hi /\ hi > 0) => result.confidence = 0
            /\ result.confidence = 0 => (hi > 0 /\ 2000 * (hi - lo) <= hi)

\* two references at different Delta E and a confidence of 0.0
C10_Witness ==
    /\ calibration = TwoRefs
    /\ color = Returned(Teal)
    /\ result.kind = "ok"
    /\ result.confidence = 0
    /\ result.distances[1].delta_e # result.distances[2].delta_e

----------------------------------------------------------------------------
(* Properties of requests with an empty or an absent region                *)

\* the request's region is a dict of width 0 or height 0
IsDegenerate(reg) == reg.present /\ reg.hasFields /\ (reg.width = 0 \/ reg.height = 0)

\* C11: for every image and every region of width 0 or height 0, wherever
\* it lies, sampling returns the fallback gray (128,128,128) and raises
\* nothing, and an analysis with that region under the default reference
\* table returns a complete result (sample colour, region, status,
\* confidence, distances to the four references) and no error value.
C11_DegenerateRegionGivesGrayResult ==
    (IsDegenerate(region) /\ calibration \in {None, DefaultCalibration}) =>
        /\ color # NotSampled => color = Returned(FallbackGray)
        /\ result # NoResult =>
              /\ result.kind = "ok"
              /\ DOMAIN result = ResultFields
              /\ result.sample_color = FallbackGray
              /\ result.region = region
              /\ result.status \in StatusLabelKeys
              /\ result.confidence \in 0..1000
              /\ {result.distances[i].status : i \in 1..Len(result.distances)}
                    = Keys(DEFAULT_COLORS)
              /\ Len(analysis_history) >= 1

\* an analysis whose region has height 0 and lies right of and above the image
C11_Witness ==
    /\ IsDegenerate(region)
    /\ region.x >= image.w /\ region.y < 0 /\ region.width > 0
    /\ color = Returned(FallbackGray)
    /\ result.kind = "ok"
    /\ result.sample_color = FallbackGray
    /\ calibration = DefaultCalibration

\* C12: an analysis called without a region on an image at least 2 wide and
\* 2 high uses the region x = W div 4, y = H div 4, width = W div 2,
\* height = H div 2; that rectangle lies inside the image, holds a pixel and
\* is what the clamping keeps, and the sampled colour is per channel the
\* mean (cut to an integer) of the image's pixels in it.
C12_DefaultRegionInsideNonEmpty ==
    (~region.present /\ image.w >= 2 /\ image.h >= 2 /\ result # NoResult) =>
        LET x == image.w \div 4
            y == image.h \div 4
            w == image.w \div 2
            h == image.h \div 2
            cells == {<<r, c>> \in (y..(y + h - 1)) \X (x..(x + w - 1)) : TRUE}
            n == Cardinality(cells)
        IN  /\ result.kind = "ok"
            /\ result.region = Region(x, y, w, h)
            /\ 0 <= x /\ x + w <= image.w
            /\ 0 <= y /\ y + h <= image.h
            /\ w >= 1 /\ h >= 1
            /\ Clamp(image, result.region) = [x |-> x, y |-> y, x2 |-> x + w, y2 |-> y + h]
            /\ ~color.raised
            /\ result.sample_color = color.rgb
            /\ \A ch \in 1..3 :
                  /\ n * color.rgb[ch] <= SumChannel(image, cells, ch)
                  /\ SumChannel(image, cells, ch) < n * (color.rgb[ch] + 1)

\* a 4 x 4 image analysed without a region: the 2 x 2 rectangle at (1,1),
\* two pixels of each colour
C12_Witness ==
    /\ ~region.present
    /\ image.w = 4 /\ image.h = 4
    /\ result.kind = "ok"
    /\ result.region = Region(1, 1, 2, 2)
    /\ result.sample_color = <<107, 144, 74>>

====
